---- MODULE Spec2Model ----
\* Note lifecycle, versioning, sharing and access control of
\* src/src/notes/notes.service.ts (NotesService), over an abstract relational
\* store holding the Note, NoteVersion and NoteUser tables.
\*
\* Every handler runs to completion as one step (the sequential behaviour of
\* the service); a prisma.$transaction is one atomic write.  `last` records
\* each call with its outcome, so that properties can speak about what a
\* call returned and what it changed.  The store hands out one note id: the
\* handlers address rows by note id only, and the properties are per note.
\* Spec runs every operation with sharing and visibility requests;
\* SpecContent runs the note lifecycle with every title and body request;
\* SpecAdmin adds the admin console, SpecList the listings over two notes,
\* SpecNotify and SpecInbox the Notification table, SpecGateway the realtime
\* gateway; SpecConcurrent and SpecShareRace split update and shareNote at
\* their awaits, so that calls overlap.
EXTENDS Integers, Sequences, FiniteSets, TLC

\* ---------------------------------------------------------------- bounds
\* Most NoteVersion rows a note gets, and the longest grantee list of a
\* shareNote request.
MaxVersions == 3
MaxShare == 2

\* ---------------------------------------------------------------- domains
\* Rows of the User table, and the ids a caller can put in a request
\* ("u0" resolves to no user).
Users == {"u1", "u2", "u3"}
UserIds == Users \cup {"u0"}
Titles == {"T1", "T2"}
Bodies == {"B1", "B2"}
\* A tags array is stored and copied as a whole by every handler modelled
\* here; "[]" is the empty array.
TagLists == {"[]", "[x]"}
Visibilities == {"PRIVATE", "SHARED", "PUBLIC"}
Undefined == "undefined"
\* Ids the store hands out to new notes (each id once).  A request can name
\* any of them: an id not handed out yet, or whose note was removed,
\* resolves to no note.
NoteIds == {"n1"}
NoId == "none"
VersionArgs == 1 .. (MaxVersions + 1)

CreateDtos ==
  [title : Titles, description : Bodies,
   tags : TagLists \cup {Undefined}, visibility : Visibilities \cup {Undefined}]
UpdateDtos ==
  [title : Titles \cup {Undefined}, description : Bodies \cup {Undefined},
   tags : TagLists \cup {Undefined}, visibility : Visibilities \cup {Undefined}]
NoDto ==
  [title |-> Undefined, description |-> Undefined,
   tags |-> Undefined, visibility |-> Undefined]
UserIdLists == UNION {[1 .. k -> UserIds] : k \in 0 .. MaxShare}

\* Requests of the sharing and access-control runs: notes are created with
\* one fixed content and default tags, and updates carry a visibility only.
AccessCreateDtos ==
  {d \in CreateDtos : d.title = "T1" /\ d.description = "B1" /\ d.tags = Undefined}
VisibilityDtos ==
  {d \in UpdateDtos :
     d.title = Undefined /\ d.description = Undefined /\ d.tags = Undefined}

\* Requests of the runs with the admin console: grantee lists of at most one
\* id, author updates of the visibility or of the title, admin updates of
\* title, body and tags.
SingleLists == {l \in UserIdLists : Len(l) <= 1}
\* Lists of at most one id of a registered user.
RecipientLists == {l \in SingleLists : \A i \in 1 .. Len(l) : l[i] \in Users}
AuthorUpdateDtos ==
  VisibilityDtos \cup
    {d \in UpdateDtos : d.title = "T2" /\ d.description = Undefined
                          /\ d.tags = Undefined /\ d.visibility = Undefined}
AdminUpdateDtos ==
  {d \in UpdateDtos :
     d.title \in {Undefined, "T2"} /\ d.description \in {Undefined, "B2"}
       /\ d.tags \in {Undefined, "[x]"} /\ d.visibility = Undefined}

\* Requests of the content runs: every title and body, with or without the
\* tags ["x"], with or without the visibility PUBLIC.
ContentCreateDtos ==
  {d \in CreateDtos :
     d.tags \in {Undefined, "[x]"} /\ d.visibility \in {Undefined, "PUBLIC"}}
ContentUpdateDtos ==
  {d \in UpdateDtos :
     d.tags \in {Undefined, "[x]"} /\ d.visibility \in {Undefined, "PUBLIC"}}

VARIABLES
  notes,        \* Note table: note id -> row
  usedIds,      \* ids handed out so far (a new note gets a fresh id)
  noteVersions, \* NoteVersion table, rows in insertion order
  noteUsers,    \* NoteUser table, rows in insertion order
  last,         \* the last service call and its outcome
  notifications, \* Notification table, rows in insertion order
  emitted,      \* events the realtime gateway has emitted, in order
  inflight,     \* update calls suspended between their read and their write
  rowLock,      \* the update call whose open transaction holds the note row
  sockets,      \* socket id -> the connection as the gateway knows it
  connectedUsers \* the gateway's map userId -> socketId

vars == <<notes, usedIds, noteVersions, noteUsers, last,
          notifications, emitted, inflight, rowLock, sockets, connectedUsers>>
db == <<notes, usedIds, noteVersions, noteUsers>>
\* What NotesService never writes when its handlers run one at a time.
gateway == <<sockets, connectedUsers>>
aside == <<notifications, emitted, inflight, rowLock, gateway>>

\* ---------------------------------------------------------------- helpers
Range(s) == {s[i] : i \in 1 .. Len(s)}

\* a ?? b  and  a || b  on the values used here (no empty string, no null
\* reaches the service: the DTO transform turns null into undefined)
Coalesce(a, b) == IF a = Undefined THEN b ELSE a

VersionsOf(vs, id) == SelectSeq(vs, LAMBDA r : r.noteId = id)
GrantsOf(nu, id) == SelectSeq(nu, LAMBDA r : r.noteId = id)

\* tx.noteVersion.findFirst({where: {noteId}, orderBy: {version: 'desc'}})
\* followed by (latestVersion?.version || 0): 0 when there is no row.
LatestVersion(vs, id) ==
  LET nums == {r.version : r \in Range(VersionsOf(vs, id))}
  IN IF nums = {} THEN 0 ELSE CHOOSE m \in nums : \A k \in nums : k <= m

\* page, limit and search text of a listing; NoQuery where there is none
NoQuery == [page |-> 0, limit |-> 0, search |-> Undefined]

Call(op, id, userId, dto, userIds, version, result) ==
  [op |-> op, id |-> id, userId |-> userId, dto |-> dto,
   userIds |-> userIds, version |-> version, result |-> result,
   query |-> NoQuery, data |-> <<>>]

\* ---------------------------------------------------------------- findOne
\* hasAccess with the visibility test of the share clause left out
hasAccess_AnyGrant(id, userId) ==
  \/ notes[id].authorId = userId
  \/ notes[id].visibility = "PUBLIC"
  \/ \E i \in 1 .. Len(noteUsers) :
       noteUsers[i].noteId = id /\ noteUsers[i].userId = userId

\* "Check if user has access to this note"
hasAccess(id, userId) ==
  \/ notes[id].authorId = userId
  \/ notes[id].visibility = "PUBLIC"
  \/ /\ notes[id].visibility = "SHARED"
     /\ \E i \in 1 .. Len(noteUsers) :
          noteUsers[i].noteId = id /\ noteUsers[i].userId = userId

\* findOneResult with the access check made before the existence check
findOneResult_AccessFirst(id, userId) ==
  IF id \notin DOMAIN notes THEN "Forbidden"
  ELSE IF ~hasAccess(id, userId) THEN "Forbidden"
  ELSE "OK"

findOneResult(id, userId) ==
  IF id \notin DOMAIN notes THEN "NotFound"
  ELSE IF ~hasAccess(id, userId) THEN "Forbidden"
  ELSE "OK"

findOne(id, userId) ==
  /\ last' = Call("findOne", id, userId, NoDto, <<>>, 0, findOneResult(id, userId))
  /\ UNCHANGED <<notes, usedIds, noteVersions, noteUsers>>

\* getVersions: findOne as the access check, then a read of the rows.
getVersions(id, userId) ==
  /\ last' = Call("getVersions", id, userId, NoDto, <<>>, 0, findOneResult(id, userId))
  /\ UNCHANGED <<notes, usedIds, noteVersions, noteUsers>>

\* A call that throws: nothing is written.
fail(call) ==
  /\ last' = call
  /\ UNCHANGED db

\* A call turned down by findOne or by the author check, before the handler
\* has looked at the rest of the request.
Refused(op, id, userId, result) == Call(op, id, userId, NoDto, <<>>, 0, result)

\* The author check made by update, remove, shareNote and restoreVersion
\* after findOne has returned the note.
\* the author check replaced by the read check
isAuthor_AnyReader(id, userId) == hasAccess(id, userId)

isAuthor(id, userId) == notes[id].authorId = userId

\* findOne followed by the author check: the exception thrown, or "OK".
authorGate(id, userId) ==
  IF findOneResult(id, userId) # "OK" THEN findOneResult(id, userId)
  ELSE IF ~isAuthor(id, userId) THEN "Forbidden"
  ELSE "OK"

\* ---------------------------------------------------------------- update
\* Data written by tx.note.update: supplied fields, else the values read.
updateData(dto, existingNote) ==
  [existingNote EXCEPT
     !.title = Coalesce(dto.title, existingNote.title),
     !.description = Coalesce(dto.description, existingNote.description),
     !.tags = Coalesce(dto.tags, existingNote.tags),
     !.visibility = Coalesce(dto.visibility, existingNote.visibility)]

\* contentChanged without the comparison against the persisted values
contentChanged_AnySupplied(dto, existingNote) ==
  dto.title # Undefined \/ dto.description # Undefined

\* "Create new version if description or title changed"
contentChanged(dto, existingNote) ==
  \/ dto.title # Undefined /\ dto.title # existingNote.title
  \/ dto.description # Undefined /\ dto.description # existingNote.description

\* nextVersion taken from the oldest row instead of the latest
nextVersion_Oldest(vs, id) ==
  IF VersionsOf(vs, id) = <<>> THEN 1 ELSE VersionsOf(vs, id)[1].version + 1

\* version: (latestVersion?.version || 0) + 1
nextVersion(vs, id) == LatestVersion(vs, id) + 1

versionRow(id, title, description, version, userId) ==
  [noteId |-> id, title |-> title, description |-> description,
   version |-> version, createdBy |-> userId]

update(id, dto, userId) ==
  LET gate == authorGate(id, userId) IN
  IF gate # "OK" THEN fail(Refused("update", id, userId, gate))
  ELSE
    LET existingNote == notes[id]
        updatedNote == updateData(dto, existingNote)
    IN /\ contentChanged(dto, existingNote)
            => Len(VersionsOf(noteVersions, id)) < MaxVersions
       /\ notes' = [notes EXCEPT ![id] = updatedNote]
       /\ noteVersions' =
            IF contentChanged(dto, existingNote)
            THEN Append(noteVersions,
                   versionRow(id, updatedNote.title, updatedNote.description,
                              nextVersion(noteVersions, id), userId))
            ELSE noteVersions
       /\ UNCHANGED <<usedIds, noteUsers>>
       /\ last' = Call("update", id, userId, dto, <<>>, 0, "OK")

\* ---------------------------------------------------------------- remove
\* prisma.note.delete; the note's versions and shares go with it
\* ("cascade delete hoga versions aur shares ka").
remove(id, userId) ==
  LET gate == authorGate(id, userId) IN
  IF gate # "OK" THEN fail(Refused("remove", id, userId, gate))
  ELSE
    /\ notes' = [n \in DOMAIN notes \ {id} |-> notes[n]]
    /\ noteVersions' = SelectSeq(noteVersions, LAMBDA r : r.noteId # id)
    /\ noteUsers' = SelectSeq(noteUsers, LAMBDA r : r.noteId # id)
    /\ UNCHANGED usedIds
    /\ last' = Call("remove", id, userId, NoDto, <<>>, 0, "OK")

\* ---------------------------------------------------------------- shareNote
\* prisma.user.findMany({where: {id: {in: userIds}}}): the User rows whose
\* id occurs in the list, each row once.
usersFound(userIds) == {u \in Users : u \in Range(userIds)}

\* shareRejected as a membership test of every id
shareRejected_Membership(userIds) == ~(Range(userIds) \subseteq Users)

\* users.length !== userIds.length
shareRejected(userIds) == Cardinality(usersFound(userIds)) # Len(userIds)

\* shareRows without the deleteMany
shareRows_Incremental(nu, id, userIds) ==
  nu \o [i \in 1 .. Len(userIds) |->
           [noteId |-> id, userId |-> userIds[i], permission |-> "VIEW"]]

\* deleteMany({where: {noteId}}) then createMany(one row per list element)
shareRows(nu, id, userIds) ==
  SelectSeq(nu, LAMBDA r : r.noteId # id)
    \o [i \in 1 .. Len(userIds) |->
          [noteId |-> id, userId |-> userIds[i], permission |-> "VIEW"]]

\* shareVisibility without the PRIVATE test
shareVisibility_Always(visibility) == "SHARED"

\* "Update note visibility to SHARED if it's PRIVATE"
shareVisibility(visibility) ==
  IF visibility = "PRIVATE" THEN "SHARED" ELSE visibility

shareNote(id, userIds, userId) ==
  LET gate == authorGate(id, userId) IN
  IF gate # "OK" THEN fail(Refused("shareNote", id, userId, gate))
  ELSE IF shareRejected(userIds)
  THEN fail(Call("shareNote", id, userId, NoDto, userIds, 0, "BadRequest"))
  ELSE
    /\ noteUsers' = shareRows(noteUsers, id, userIds)
    /\ notes' = [notes EXCEPT
                   ![id].visibility = shareVisibility(notes[id].visibility)]
    /\ UNCHANGED <<usedIds, noteVersions>>
    /\ last' = Call("shareNote", id, userId, NoDto, userIds, 0, "OK")

\* ---------------------------------------------------------------- restoreVersion
\* targetVersions without the version number in the where clause
targetVersions_AnyVersion(vs, id, version) == Range(VersionsOf(vs, id))

\* prisma.noteVersion.findFirst({where: {noteId, version}}): the rows found
targetVersions(vs, id, version) ==
  {r \in Range(VersionsOf(vs, id)) : r.version = version}

\* restoreRow built from the note as findOne returned it
restoreRow_Live(id, note, targetVersion, version, userId) ==
  versionRow(id, note.title, note.description, version, userId)

\* "Create new version for the restoration"
restoreRow(id, note, targetVersion, version, userId) ==
  versionRow(id, targetVersion.title, targetVersion.description, version, userId)

restoreVersion(id, version, userId) ==
  LET gate == authorGate(id, userId) IN
  IF gate # "OK" THEN fail(Refused("restoreVersion", id, userId, gate))
  ELSE IF targetVersions(noteVersions, id, version) = {}
  THEN fail(Call("restoreVersion", id, userId, NoDto, <<>>, version, "NotFound"))
  ELSE
    /\ Len(VersionsOf(noteVersions, id)) < MaxVersions
    /\ \E targetVersion \in targetVersions(noteVersions, id, version) :
         /\ notes' = [notes EXCEPT
                        ![id].title = targetVersion.title,
                        ![id].description = targetVersion.description]
         /\ noteVersions' = Append(noteVersions,
              restoreRow(id, notes[id], targetVersion,
                         nextVersion(noteVersions, id), userId))
    /\ UNCHANGED <<usedIds, noteUsers>>
    /\ last' = Call("restoreVersion", id, userId, NoDto, <<>>, version, "OK")

\* ---------------------------------------------------------------- create
\* createData without the default visibility
createData_NoDefault(dto, userId) ==
  [title |-> dto.title,
   description |-> dto.description,
   tags |-> Coalesce(dto.tags, "[]"),
   visibility |-> dto.visibility,
   authorId |-> userId]

\* data of tx.note.create
createData(dto, userId) ==
  [title |-> dto.title,
   description |-> dto.description,
   tags |-> Coalesce(dto.tags, "[]"),
   visibility |-> Coalesce(dto.visibility, "PRIVATE"),
   authorId |-> userId]

\* One transaction: the Note row and its NoteVersion 1.
createNote(id, dto, userId) ==
  LET note == createData(dto, userId)
  IN /\ notes' = (id :> note) @@ notes
     /\ usedIds' = usedIds \cup {id}
     /\ noteVersions' = Append(noteVersions,
          versionRow(id, note.title, note.description, 1, userId))
     /\ noteUsers' = noteUsers
     /\ last' = Call("create", id, userId, dto, <<>>, 0, "OK")

\* The store gives the new note an id that no note has had.
create(dto, userId) ==
  \E id \in NoteIds \ usedIds : createNote(id, dto, userId)

\* ---------------------------------------------------------------- admin
\* Users whose role is ADMIN: RolesGuard lets only them reach AdminController.
Admins == {"u3"}

\* data of prisma.note.update in AdminService.updateNote: each of title,
\* description and tags is written when the request carries it.
adminUpdateData(dto, note) ==
  [note EXCEPT
     !.title = Coalesce(dto.title, note.title),
     !.description = Coalesce(dto.description, note.description),
     !.tags = Coalesce(dto.tags, note.tags)]

adminUpdateNote(id, dto, userId) ==
  IF userId \notin Admins
  THEN fail(Refused("adminUpdateNote", id, userId, "Forbidden"))
  ELSE IF id \notin DOMAIN notes
  THEN fail(Call("adminUpdateNote", id, userId, dto, <<>>, 0, "NotFound"))
  ELSE
    /\ notes' = [notes EXCEPT ![id] = adminUpdateData(dto, notes[id])]
    /\ UNCHANGED <<usedIds, noteVersions, noteUsers>>
    /\ last' = Call("adminUpdateNote", id, userId, dto, <<>>, 0, "OK")

adminDeleteNote(id, userId) ==
  IF userId \notin Admins
  THEN fail(Refused("adminDeleteNote", id, userId, "Forbidden"))
  ELSE IF id \notin DOMAIN notes
  THEN fail(Refused("adminDeleteNote", id, userId, "NotFound"))
  ELSE
    /\ notes' = [n \in DOMAIN notes \ {id} |-> notes[n]]
    /\ noteVersions' = SelectSeq(noteVersions, LAMBDA r : r.noteId # id)
    /\ noteUsers' = SelectSeq(noteUsers, LAMBDA r : r.noteId # id)
    /\ UNCHANGED usedIds
    /\ last' = Call("adminDeleteNote", id, userId, NoDto, <<>>, 0, "OK")

NoCall == Call("none", NoId, "u0", NoDto, <<>>, 0, "OK")

\* ---------------------------------------------------------------- overlapping updates
\* Two requests can be in flight at once: each slot holds one call of update
\* between its findOne and the commit of its transaction.
Slots == {1, 2}
NoNote ==
  [title |-> Undefined, description |-> Undefined, tags |-> Undefined,
   visibility |-> Undefined, authorId |-> "u0"]
Idle ==
  [pc |-> "idle", id |-> NoId, userId |-> "u0", dto |-> NoDto,
   existingNote |-> NoNote, version |-> 0, userIds |-> <<>>]

\* Requests of the overlapping runs: one field each.
OverlapUpdateDtos ==
  {d \in UpdateDtos :
     \/ d = [NoDto EXCEPT !.title = "T2"]
     \/ d = [NoDto EXCEPT !.description = "B2"]
     \/ d = [NoDto EXCEPT !.tags = "[x]"]
     \/ d = [NoDto EXCEPT !.visibility = "PUBLIC"]}

\* The slot's call has passed findOne and the author check and is not done.
InTransaction(s) == inflight[s].pc \in {"updated", "found"}

\* tx.note.update without the row lock of the UPDATE statement
rowFree_NoLock(lock) == TRUE

\* tx.note.update is an UPDATE of the Note row: PostgreSQL makes it wait until
\* no other open transaction holds the lock of that row.
rowFree(lock) == lock = 0

\* const existingNote = await this.findOne(id, userId), then the author check.
updateFindOne(s, id, dto, userId) ==
  /\ inflight[s].pc = "idle"
  /\ LET gate == authorGate(id, userId) IN
     IF gate # "OK"
     THEN /\ fail(Refused("update", id, userId, gate))
          /\ UNCHANGED <<inflight, rowLock>>
     ELSE /\ inflight' = [inflight EXCEPT ![s] =
               [pc |-> "read", id |-> id, userId |-> userId, dto |-> dto,
                existingNote |-> notes[id], version |-> 0, userIds |-> <<>>]]
          /\ last' = Refused("update.findOne", id, userId, "OK")
          /\ UNCHANGED <<notes, usedIds, noteVersions, noteUsers, rowLock>>
  /\ UNCHANGED <<notifications, emitted, gateway>>

\* First statement of the transaction: tx.note.update takes the row lock;
\* what it writes is seen by other requests only after the commit.
txNoteUpdate(s) ==
  /\ inflight[s].pc = "read"
  /\ rowFree(rowLock)
  /\ rowLock' = s
  /\ inflight' = [inflight EXCEPT ![s].pc = "updated"]
  /\ last' = Refused("tx.note.update", inflight[s].id, inflight[s].userId, "OK")
  /\ UNCHANGED <<notes, usedIds, noteVersions, noteUsers, notifications, emitted,
                 gateway>>

\* tx.noteVersion.findFirst, run when title or description differ from the
\* values read: a READ COMMITTED statement sees the rows committed so far.
txFindFirst(s) ==
  /\ inflight[s].pc = "updated"
  /\ contentChanged(inflight[s].dto, inflight[s].existingNote)
  /\ Len(VersionsOf(noteVersions, inflight[s].id)) < MaxVersions
  /\ inflight' = [inflight EXCEPT
                    ![s].pc = "found",
                    ![s].version = nextVersion(noteVersions, inflight[s].id)]
  /\ last' = Refused("tx.noteVersion.findFirst", inflight[s].id,
                     inflight[s].userId, "OK")
  /\ UNCHANGED <<notes, usedIds, noteVersions, noteUsers, rowLock,
                 notifications, emitted, gateway>>

\* tx.noteVersion.create where it applies, and the commit: the writes of the
\* transaction become visible and the row lock is released.
txCommit(s) ==
  LET c == inflight[s]
      changed == contentChanged(c.dto, c.existingNote)
      updatedNote == updateData(c.dto, c.existingNote)
  IN /\ IF changed THEN c.pc = "found" ELSE c.pc = "updated"
     /\ notes' = [notes EXCEPT ![c.id] = updatedNote]
     /\ noteVersions' =
          IF changed
          THEN Append(noteVersions,
                 versionRow(c.id, updatedNote.title, updatedNote.description,
                            c.version, c.userId))
          ELSE noteVersions
     /\ rowLock' = 0
     /\ inflight' = [inflight EXCEPT ![s] = Idle]
     /\ last' = Call("update", c.id, c.userId, c.dto, <<>>, 0, "OK")
     /\ UNCHANGED <<usedIds, noteUsers, notifications, emitted, gateway>>

\* shareNote up to its transaction: findOne, the author check and the
\* lookup of the users of the list.
shareFindOne(s, id, userIds, userId) ==
  /\ inflight[s].pc = "idle"
  /\ LET gate == authorGate(id, userId) IN
     IF gate # "OK"
     THEN fail(Refused("shareNote", id, userId, gate)) /\ UNCHANGED inflight
     ELSE IF shareRejected(userIds)
     THEN /\ fail(Call("shareNote", id, userId, NoDto, userIds, 0, "BadRequest"))
          /\ UNCHANGED inflight
     ELSE /\ inflight' = [inflight EXCEPT ![s] =
               [pc |-> "share", id |-> id, userId |-> userId, dto |-> NoDto,
                existingNote |-> notes[id], version |-> 0, userIds |-> userIds]]
          /\ last' = Refused("shareNote.findOne", id, userId, "OK")
          /\ UNCHANGED db
  /\ UNCHANGED <<notifications, emitted, rowLock, gateway>>

\* The transaction of shareNote: the grants are replaced, and the note is
\* set to SHARED when the note that findOne returned was PRIVATE.
shareCommit(s) ==
  LET c == inflight[s] IN
  /\ c.pc = "share"
  /\ noteUsers' = shareRows(noteUsers, c.id, c.userIds)
  /\ notes' = IF c.existingNote.visibility = "PRIVATE"
              THEN [notes EXCEPT ![c.id].visibility =
                      shareVisibility(c.existingNote.visibility)]
              ELSE notes
  /\ inflight' = [inflight EXCEPT ![s] = Idle]
  /\ last' = Call("shareNote", c.id, c.userId, NoDto, c.userIds, 0, "OK")
  /\ UNCHANGED <<usedIds, noteVersions, notifications, emitted, rowLock, gateway>>

\* One note, calls of shareNote in two steps and calls of update between them.
NextShareRace ==
  \/ \E dto \in AccessCreateDtos, u \in Users :
       create(dto, u) /\ UNCHANGED aside
  \/ \E id \in NoteIds, dto \in VisibilityDtos, u \in Users :
       update(id, dto, u) /\ UNCHANGED aside
  \/ \E s \in Slots, id \in NoteIds, l \in RecipientLists, u \in Users :
       shareFindOne(s, id, l, u)
  \/ \E s \in Slots : shareCommit(s)

\* One note, and calls of update that overlap.
NextConcurrent ==
  \/ \E dto \in AccessCreateDtos, u \in Users :
       create(dto, u) /\ UNCHANGED aside
  \/ \E s \in Slots, id \in NoteIds, dto \in OverlapUpdateDtos, u \in Users :
       updateFindOne(s, id, dto, u)
  \/ \E s \in Slots : txNoteUpdate(s)
  \/ \E s \in Slots : txFindFirst(s)
  \/ \E s \in Slots : txCommit(s)

\* ---------------------------------------------------------------- gateway state
\* Connections to the /notifications namespace; a socket id is used once.
SocketIds == {"s1", "s2"}
NoSocket == "none"
\* What a handshake can carry: no token, a token that jwtService.verify
\* rejects, or a verified token with its subject ("u0" is no user's id).
\* The users who connect are u1 and u2.
GatewayUsers == {"u1", "u2"}
GatewayTokens == {"none", "invalid", "u0"} \cup GatewayUsers

\* `user:${userId}`
UserRoom(userId) ==
  CASE userId = "u1" -> "user:u1"
    [] userId = "u2" -> "user:u2"
    [] userId = "u3" -> "user:u3"
    [] OTHER -> "user:u0"
Rooms == {UserRoom(u) : u \in GatewayUsers}

\* A socket before its connection: pc is the place of handleConnection
\* ("new": not called, "lookup": suspended in prisma.user.findUnique, "done"),
\* live is false once the socket has disconnected, userId is client.userId,
\* rooms are the rooms joined, registered is the rank of its
\* connectedUsers.set among all of them (0: none).
NewSocket ==
  [pc |-> "new", live |-> FALSE, token |-> "none", userId |-> Undefined,
   rooms |-> {}, registered |-> 0]

Init ==
  /\ sockets = [s \in SocketIds |-> NewSocket]
  /\ connectedUsers = [u \in Users |-> NoSocket]
  /\ notes = <<>>
  /\ usedIds = {}
  /\ noteVersions = <<>>
  /\ noteUsers = <<>>
  /\ last = NoCall
  /\ notifications = <<>>
  /\ emitted = <<>>
  /\ inflight = [s \in Slots |-> Idle]
  /\ rowLock = 0

SpecConcurrent == Init /\ [][NextConcurrent]_vars
SpecShareRace == Init /\ [][NextShareRace]_vars

\* Every operation, with the requests of the sharing and access-control runs.
Next ==
  \/ \E dto \in AccessCreateDtos, u \in Users :
       create(dto, u) /\ UNCHANGED aside
  \/ \E id \in NoteIds, u \in Users :
       findOne(id, u) /\ UNCHANGED aside
  \/ \E id \in NoteIds, u \in Users :
       getVersions(id, u) /\ UNCHANGED aside
  \/ \E id \in NoteIds, dto \in VisibilityDtos, u \in Users :
       update(id, dto, u) /\ UNCHANGED aside
  \/ \E id \in NoteIds, u \in Users :
       remove(id, u) /\ UNCHANGED aside
  \/ \E id \in NoteIds, l \in UserIdLists, u \in Users :
       shareNote(id, l, u) /\ UNCHANGED aside
  \/ \E id \in NoteIds, v \in VersionArgs, u \in Users :
       restoreVersion(id, v, u) /\ UNCHANGED aside

Spec == Init /\ [][Next]_vars

\* The note lifecycle with every create and update request, sharing left out.
NextContent ==
  \/ \E dto \in ContentCreateDtos, u \in Users :
       create(dto, u) /\ UNCHANGED aside
  \/ \E id \in NoteIds, u \in Users :
       findOne(id, u) /\ UNCHANGED aside
  \/ \E id \in NoteIds, dto \in ContentUpdateDtos, u \in Users :
       update(id, dto, u) /\ UNCHANGED aside
  \/ \E id \in NoteIds, u \in Users :
       remove(id, u) /\ UNCHANGED aside
  \/ \E id \in NoteIds, v \in VersionArgs, u \in Users :
       restoreVersion(id, v, u) /\ UNCHANGED aside

SpecContent == Init /\ [][NextContent]_vars

\* ---------------------------------------------------------------- listing and search
\* Two note ids, so that a listing has more than one page.
ListNoteOrder == <<"n1", "n2">>
ListNoteIds == Range(ListNoteOrder)
ListTitles == {"Plan", "Memo"}
ListCreateDtos ==
  [title : ListTitles, description : {"B1"}, tags : {Undefined},
   visibility : {Undefined, "PUBLIC"}]
\* An update that takes the note back to PRIVATE, whatever grants it has.
ListUpdateDtos == {d \in VisibilityDtos : d.visibility = "PRIVATE"}
Limits == {1, 2}
Pages == {1, 2}
SearchQueries == {"ME", "x"}

\* String.prototype.toLowerCase on the strings of the runs
Lower(str) ==
  CASE str = "Plan" -> "plan"
    [] str = "Memo" -> "memo"
    [] str = "ME" -> "me"
    [] str = "B1" -> "b1"
    [] str = "B2" -> "b2"
    [] str = "T1" -> "t1"
    [] str = "T2" -> "t2"
    [] OTHER -> str

\* The search texts (lower case) that occur inside a lower-case string.
Fragments(str) ==
  CASE str = "plan" -> {"pl", "plan"}
    [] str = "memo" -> {"me", "memo"}
    [] OTHER -> {str}

\* {contains: query, mode: 'insensitive'} and word.includes(query.toLowerCase())
Contains(text, query) == Lower(query) \in Fragments(Lower(text))

\* The elements of a tags column.
TagsOf(tags) == IF tags = "[x]" THEN {"x"} ELSE {}

\* the access clause of findAll with the visibility test left out
findAllWhere_AnyGrant(id, userId) ==
  \/ notes[id].authorId = userId
  \/ notes[id].visibility = "PUBLIC"
  \/ \E i \in 1 .. Len(noteUsers) :
       noteUsers[i].noteId = id /\ noteUsers[i].userId = userId

\* where.AND[0] of findAll
findAllWhere(id, userId) ==
  \/ notes[id].authorId = userId
  \/ notes[id].visibility = "PUBLIC"
  \/ /\ notes[id].visibility = "SHARED"
     /\ \E i \in 1 .. Len(noteUsers) :
          noteUsers[i].noteId = id /\ noteUsers[i].userId = userId

\* accessControl of advancedSearch
accessControl(id, userId) ==
  \/ notes[id].authorId = userId
  \/ notes[id].visibility = "PUBLIC"
  \/ /\ notes[id].visibility = "SHARED"
     /\ \E i \in 1 .. Len(noteUsers) :
          noteUsers[i].noteId = id /\ noteUsers[i].userId = userId

\* where.AND[0] of getSearchSuggestions
suggestionsWhere(id, userId) ==
  \/ notes[id].authorId = userId
  \/ notes[id].visibility = "PUBLIC"
  \/ /\ notes[id].visibility = "SHARED"
     /\ \E i \in 1 .. Len(noteUsers) :
          noteUsers[i].noteId = id /\ noteUsers[i].userId = userId

\* The rows of a findMany in the order of its orderBy. The model carries no
\* updatedAt: the rows come in one fixed order, the same for every page.
Ordered(ids) == CHOOSE q \in [1 .. Cardinality(ids) -> ids] : Range(q) = ids

\* skip and take of findMany
Page(rows, skip, take) ==
  SubSeq(rows, skip + 1, IF skip + take < Len(rows) THEN skip + take ELSE Len(rows))

\* Math.ceil(total / limit)
totalPages(total, limit) == (total + limit - 1) \div limit

\* findAll without filters: the ids of the page asked for.
findAllData(userId, page, limit) ==
  Page(Ordered({id \in DOMAIN notes : findAllWhere(id, userId)}),
       (page - 1) * limit, limit)

findAllTotal(userId) == Cardinality({id \in DOMAIN notes : findAllWhere(id, userId)})

Listed(op, userId, page, limit, search, data) ==
  [Call(op, NoId, userId, NoDto, <<>>, 0, "OK") EXCEPT
     !.query = [page |-> page, limit |-> limit, search |-> search],
     !.data = data]

findAll(page, limit, userId) ==
  /\ last' = Listed("findAll", userId, page, limit, Undefined,
                    findAllData(userId, page, limit))
  /\ UNCHANGED db

\* searchConditions of advancedSearch for a query without further filters
searchMatches(id, query) ==
  \/ Contains(notes[id].title, query)
  \/ Contains(notes[id].description, query)
  \/ query \in TagsOf(notes[id].tags)

advancedSearchData(query, userId, page, limit) ==
  Page(Ordered({id \in DOMAIN notes :
                  accessControl(id, userId) /\ searchMatches(id, query)}),
       (page - 1) * limit, limit)

advancedSearch(query, userId, page, limit) ==
  /\ last' = Listed("advancedSearch", userId, page, limit, query,
                    advancedSearchData(query, userId, page, limit))
  /\ UNCHANGED db

\* The notes that getSearchSuggestions reads (take: 10 is above two notes).
suggestionNotes(userId, query) ==
  {id \in DOMAIN notes :
     /\ suggestionsWhere(id, userId)
     /\ Contains(notes[id].title, query) \/ Contains(notes[id].description, query)}

\* Title words longer than two characters and tags that contain the query.
suggestionsOf(id, query) ==
  {w \in {Lower(notes[id].title)} : Contains(w, query) /\ Len(w) > 2}
    \cup {t \in TagsOf(notes[id].tags) : Contains(t, query)}

getSearchSuggestionsData(userId, query) ==
  IF Len(query) < 2 THEN {}
  ELSE UNION {suggestionsOf(id, query) : id \in suggestionNotes(userId, query)}

getSearchSuggestions(userId, query) ==
  /\ last' = Listed("getSearchSuggestions", userId, 0, 0, query,
                    Ordered(getSearchSuggestionsData(userId, query)))
  /\ UNCHANGED db

\* Two notes and the reads that list them.
NextList ==
  \/ \E dto \in ListCreateDtos, u \in Users :
       /\ Cardinality(usedIds) < Len(ListNoteOrder)
       /\ createNote(ListNoteOrder[Cardinality(usedIds) + 1], dto, u)
       /\ UNCHANGED aside
  \/ \E id \in ListNoteIds, dto \in ListUpdateDtos, u \in Users :
       update(id, dto, u) /\ UNCHANGED aside
  \/ \E id \in ListNoteIds, l \in RecipientLists, u \in Users :
       shareNote(id, l, u) /\ UNCHANGED aside
  \/ \E p \in Pages, l \in Limits, u \in Users :
       findAll(p, l, u) /\ UNCHANGED aside
  \/ \E q \in SearchQueries, u \in Users :
       advancedSearch(q, u, 1, 2) /\ UNCHANGED aside
  \/ \E q \in SearchQueries, u \in Users :
       getSearchSuggestions(u, q) /\ UNCHANGED aside

SpecList == Init /\ [][NextList]_vars

\* ---------------------------------------------------------------- notifications
MaxNotifications == 1
MaxEmitted == 1
NotificationTypes == {"NOTE_SHARED", "NOTE_UPDATED", "SYSTEM"}

notificationRow(userId, type, noteId) ==
  [userId |-> userId, type |-> type, noteId |-> noteId, read |-> FALSE]

\* NotificationsService.create: prisma.notification.create and nothing else.
\* `last` names the recipient as userId and the note of the payload as id.
notificationCreate(userId, type, noteId) ==
  /\ notifications' = Append(notifications, notificationRow(userId, type, noteId))
  /\ last' = Call("notify", noteId, userId, NoDto, <<>>, 0, "OK")
  /\ UNCHANGED <<notes, usedIds, noteVersions, noteUsers, emitted, inflight, rowLock,
                 gateway>>

notify(userId, type, noteId) ==
  /\ Len(notifications) < MaxNotifications
  /\ notificationCreate(userId, type, noteId)

\* The user lookup only feeds the message text; the row goes through create.
createNoteSharedNotification(noteId, sharedWithUserId, sharedByUserId) ==
  /\ Len(notifications) < MaxNotifications
  /\ notifications' =
       Append(notifications, notificationRow(sharedWithUserId, "NOTE_SHARED", noteId))
  /\ last' = Call("createNoteSharedNotification", noteId, sharedByUserId,
                  NoDto, <<sharedWithUserId>>, 0, "OK")
  /\ UNCHANGED <<notes, usedIds, noteVersions, noteUsers, emitted, inflight, rowLock,
                 gateway>>

\* createMany of one NOTE_UPDATED row per element of sharedUserIds.
createNoteUpdatedNotification(noteId, authorId, sharedUserIds) ==
  /\ Len(notifications) + Len(sharedUserIds) <= MaxNotifications
  /\ notifications' =
       notifications \o [i \in 1 .. Len(sharedUserIds) |->
                           notificationRow(sharedUserIds[i], "NOTE_UPDATED", noteId)]
  /\ last' = Call("createNoteUpdatedNotification", noteId, authorId,
                  NoDto, sharedUserIds, 0, "OK")
  /\ UNCHANGED <<notes, usedIds, noteVersions, noteUsers, emitted, inflight, rowLock,
                 gateway>>

\* ---------------------------------------------------------------- gateway
\* An event of the gateway: `data` holds the socket and the token or room
\* of the event.
GatewayEvent(op, s, arg) ==
  [Call(op, NoId, "u0", NoDto, <<>>, 0, "OK") EXCEPT !.data = <<s, arg>>]

gatewayFrame == UNCHANGED <<notes, usedIds, noteVersions, noteUsers,
                            notifications, inflight, rowLock>>

\* Number of connectedUsers.set calls made so far.
Registrations == Cardinality({s \in SocketIds : sockets[s].registered > 0})

\* handleConnection up to its first await: a socket without a token or with
\* a token that fails verification is disconnected; otherwise the handler
\* waits for prisma.user.findUnique.
handleConnection(s, token) ==
  /\ sockets[s].pc = "new"
  /\ sockets' = [sockets EXCEPT ![s] =
       IF token \in {"none", "invalid"}
       THEN [NewSocket EXCEPT !.pc = "done", !.token = token]
       ELSE [NewSocket EXCEPT !.pc = "lookup", !.live = TRUE, !.token = token]]
  /\ UNCHANGED <<connectedUsers, emitted>>
  /\ last' = GatewayEvent("handleConnection", s, token)
  /\ gatewayFrame

\* handleConnection after the lookup: without a user the socket is
\* disconnected; with one, client.userId is set, the registry entry of the
\* user is overwritten and the socket joins user:<id>, whether or not the
\* socket is still connected.
handleConnectionResume(s) ==
  LET c == sockets[s] IN
  /\ c.pc = "lookup"
  /\ IF c.token \notin Users
     THEN /\ sockets' = [sockets EXCEPT ![s].pc = "done", ![s].live = FALSE,
                                        ![s].rooms = {}]
          /\ UNCHANGED connectedUsers
     ELSE /\ sockets' = [sockets EXCEPT
                           ![s].pc = "done",
                           ![s].userId = c.token,
                           ![s].rooms = c.rooms \cup {UserRoom(c.token)},
                           ![s].registered = Registrations + 1]
          /\ connectedUsers' = [connectedUsers EXCEPT ![c.token] = s]
  /\ UNCHANGED emitted
  /\ last' = GatewayEvent("handleConnectionResume", s, c.token)
  /\ gatewayFrame

\* if (client.userId) this.connectedUsers.delete(client.userId)
handleDisconnectRegistry(s) ==
  IF sockets[s].userId # Undefined
  THEN [connectedUsers EXCEPT ![sockets[s].userId] = NoSocket]
  ELSE connectedUsers

\* The client goes away: the socket leaves its rooms and handleDisconnect runs.
handleDisconnect(s) ==
  /\ sockets[s].live
  /\ sockets' = [sockets EXCEPT ![s].live = FALSE, ![s].rooms = {}]
  /\ connectedUsers' = handleDisconnectRegistry(s)
  /\ UNCHANGED emitted
  /\ last' = GatewayEvent("handleDisconnect", s, NoSocket)
  /\ gatewayFrame

\* the test of client.userId left out
isAuthenticated_Always(s) == TRUE

\* if (!client.userId) return
isAuthenticated(s) == sockets[s].userId # Undefined

\* 'join-room' from a connected client: client.join(data.room)
handleJoinRoom(s, room) ==
  /\ sockets[s].live
  /\ sockets' = IF isAuthenticated(s)
                THEN [sockets EXCEPT ![s].rooms = @ \cup {room}]
                ELSE sockets
  /\ UNCHANGED <<connectedUsers, emitted>>
  /\ last' = GatewayEvent("handleJoinRoom", s, room)
  /\ gatewayFrame

\* 'leave-room' from a connected client: client.leave(data.room)
handleLeaveRoom(s, room) ==
  /\ sockets[s].live
  /\ sockets' = IF isAuthenticated(s)
                THEN [sockets EXCEPT ![s].rooms = @ \ {room}]
                ELSE sockets
  /\ UNCHANGED <<connectedUsers, emitted>>
  /\ last' = GatewayEvent("handleLeaveRoom", s, room)
  /\ gatewayFrame

\* delivery to the socket of the registry entry only
roomMembers_Registry(room) ==
  {s \in SocketIds :
     /\ sockets[s].live /\ room \in sockets[s].rooms
     /\ \E u \in Users : connectedUsers[u] = s}

\* server.to(room): the connected sockets that are in the room
roomMembers(room) ==
  {s \in SocketIds : sockets[s].live /\ room \in sockets[s].rooms}

\* An emit to a room, with the sockets that receive it.
emission(room, event) == [room |-> room, event |-> event, to |-> roomMembers(room)]

\* WebSocketGateway.sendNotificationToUser:
\* server.to(`user:${userId}`).emit('notification', notification)
sendNotificationToUser(userId) ==
  /\ Len(emitted) < MaxEmitted
  /\ emitted' = Append(emitted, emission(UserRoom(userId), "notification"))
  /\ last' = Call("sendNotificationToUser", NoId, userId, NoDto, <<>>, 0, "OK")
  /\ UNCHANGED <<notes, usedIds, noteVersions, noteUsers, notifications, inflight,
                 rowLock, gateway>>

\* userIds.forEach(userId => server.to(`user:${userId}`).emit('note-updated', ..))
sendNoteUpdate(userIds) ==
  /\ Len(emitted) + Len(userIds) <= MaxEmitted
  /\ emitted' = emitted \o [i \in 1 .. Len(userIds) |->
                              emission(UserRoom(userIds[i]), "note-updated")]
  /\ last' = Call("sendNoteUpdate", NoId, "u0", NoDto, userIds, 0, "OK")
  /\ UNCHANGED <<notes, usedIds, noteVersions, noteUsers, notifications, inflight,
                 rowLock, gateway>>

\* return this.connectedUsers.has(userId)
isUserOnline(userId) == connectedUsers[userId] # NoSocket

\* The gateway alone: connections, room messages and pushes.
NextGateway ==
  \/ \E s \in SocketIds, t \in GatewayTokens : handleConnection(s, t)
  \/ \E s \in SocketIds : handleConnectionResume(s)
  \/ \E s \in SocketIds : handleDisconnect(s)
  \/ \E s \in SocketIds, r \in Rooms : handleJoinRoom(s, r)
  \/ \E s \in SocketIds, r \in Rooms : handleLeaveRoom(s, r)
  \/ \E u \in GatewayUsers : sendNotificationToUser(u)
  \/ \E u \in GatewayUsers : sendNoteUpdate(<<u>>)

SpecGateway == Init /\ [][NextGateway]_vars

\* ---------------------------------------------------------------- inbox
\* A notification's id is its place in the table; a deleted row leaves its
\* place empty, so that no id is given out twice.
MaxInbox == 3
NotificationIds == 1 .. (MaxInbox + 1)
DeletedRow == [userId |-> "u0", type |-> "DELETED", noteId |-> NoId, read |-> TRUE]
Exists(rows, id) == id \in 1 .. Len(rows) /\ rows[id] # DeletedRow

\* where: {id, userId}: the row with that id, when it is that user's
OwnRow(rows, id, userId) == Exists(rows, id) /\ rows[id].userId = userId

\* A call of NotificationsService: `data` holds the notification id asked
\* for (markAsRead, delete) or the count returned (markAllAsRead,
\* getUnreadCount).
InboxCall(op, userId, n, result) ==
  [Call(op, NoId, userId, NoDto, <<>>, 0, result) EXCEPT !.data = <<n>>]

inboxFrame == UNCHANGED <<notes, usedIds, noteVersions, noteUsers, emitted,
                          inflight, rowLock, gateway>>

\* markAsRead with the userId of the where clause left out
markAsReadWhere_AnyUser(rows, id, userId) == Exists(rows, id)

\* where: { id, userId } of markAsRead
markAsReadWhere(rows, id, userId) == OwnRow(rows, id, userId)

\* prisma.notification.update throws when no row matches the where clause.
markAsRead(id, userId) ==
  /\ IF markAsReadWhere(notifications, id, userId)
     THEN /\ notifications' = [notifications EXCEPT ![id].read = TRUE]
          /\ last' = InboxCall("markAsRead", userId, id, "OK")
     ELSE /\ notifications' = notifications
          /\ last' = InboxCall("markAsRead", userId, id, "NotFound")
  /\ inboxFrame

\* the updateMany of markAllAsRead without the userId of the where clause
markAllWhere_AnyUser(row, userId) == row # DeletedRow /\ ~row.read

\* where: { userId, read: false } of markAllAsRead
markAllWhere(row, userId) == row # DeletedRow /\ row.userId = userId /\ ~row.read

\* updateMany, and result.count as the value returned
markAllAsRead(userId) ==
  /\ notifications' =
       [i \in 1 .. Len(notifications) |->
          IF markAllWhere(notifications[i], userId)
          THEN [notifications[i] EXCEPT !.read = TRUE]
          ELSE notifications[i]]
  /\ last' = InboxCall("markAllAsRead", userId,
                Cardinality({i \in 1 .. Len(notifications) :
                               markAllWhere(notifications[i], userId)}), "OK")
  /\ inboxFrame

\* prisma.notification.count({where: {userId, read: false}})
getUnreadCount(userId) ==
  /\ notifications' = notifications
  /\ last' = InboxCall("getUnreadCount", userId,
                Cardinality({i \in 1 .. Len(notifications) :
                               /\ notifications[i] # DeletedRow
                               /\ notifications[i].userId = userId
                               /\ notifications[i].read = FALSE}), "OK")
  /\ inboxFrame

\* prisma.notification.delete({where: {id, userId}}) throws when no row matches.
delete(id, userId) ==
  /\ IF OwnRow(notifications, id, userId)
     THEN /\ notifications' = [notifications EXCEPT ![id] = DeletedRow]
          /\ last' = InboxCall("delete", userId, id, "OK")
     ELSE /\ notifications' = notifications
          /\ last' = InboxCall("delete", userId, id, "NotFound")
  /\ inboxFrame

\* The Notification table and the calls of its owners.
NextInbox ==
  \/ \E u \in Users :
       Len(notifications) < MaxInbox /\ notificationCreate(u, "SYSTEM", NoId)
  \/ \E id \in NotificationIds, u \in Users : markAsRead(id, u)
  \/ \E u \in Users : markAllAsRead(u)
  \/ \E u \in Users : getUnreadCount(u)
  \/ \E id \in NotificationIds, u \in Users : delete(id, u)

SpecInbox == Init /\ [][NextInbox]_vars

\* NotesService with the notification service and the gateway beside it.
NextNotify ==
  \/ \E dto \in AccessCreateDtos, u \in Users :
       create(dto, u) /\ UNCHANGED aside
  \/ \E id \in NoteIds, dto \in AuthorUpdateDtos, u \in Users :
       update(id, dto, u) /\ UNCHANGED aside
  \/ \E id \in NoteIds, l \in SingleLists, u \in Users :
       shareNote(id, l, u) /\ UNCHANGED aside
  \/ \E u \in Users, t \in NotificationTypes, id \in NoteIds : notify(u, t, id)
  \/ \E id \in NoteIds, w \in Users, b \in Users :
       createNoteSharedNotification(id, w, b)
  \/ \E id \in NoteIds, a \in Users, l \in RecipientLists :
       createNoteUpdatedNotification(id, a, l)
  \/ \E u \in Users : sendNotificationToUser(u)

SpecNotify == Init /\ [][NextNotify]_vars

\* Every operation of NotesService together with the admin console's note
\* operations.
NextAdmin ==
  \/ \E dto \in AccessCreateDtos, u \in Users :
       create(dto, u) /\ UNCHANGED aside
  \/ \E id \in NoteIds, u \in Users :
       findOne(id, u) /\ UNCHANGED aside
  \/ \E id \in NoteIds, dto \in AuthorUpdateDtos, u \in Users :
       update(id, dto, u) /\ UNCHANGED aside
  \/ \E id \in NoteIds, u \in Users :
       remove(id, u) /\ UNCHANGED aside
  \/ \E id \in NoteIds, l \in SingleLists, u \in Users :
       shareNote(id, l, u) /\ UNCHANGED aside
  \/ \E id \in NoteIds, v \in VersionArgs, u \in Users :
       restoreVersion(id, v, u) /\ UNCHANGED aside
  \/ \E id \in NoteIds, dto \in AdminUpdateDtos, u \in Users :
       adminUpdateNote(id, dto, u) /\ UNCHANGED aside
  \/ \E id \in NoteIds, u \in Users :
       adminDeleteNote(id, u) /\ UNCHANGED aside

SpecAdmin == Init /\ [][NextAdmin]_vars

\* ---------------------------------------------------------------- properties
\* What the properties read off the tables.
Author(id) == notes[id].authorId
GrantedUsers(nu, id) == {r.userId : r \in Range(GrantsOf(nu, id))}
Mutating == {"update", "remove", "shareNote", "restoreVersion"}

\* C1: findOne(N, U) on a stored note succeeds if and only if U is N's
\* author, or N is PUBLIC, or N is SHARED and a NoteUser row exists for
\* (N, U); otherwise it is refused.  (findOne writes nothing, so the tables
\* of the state are the tables it read.)
C1_ReadAccess ==
  (last.op = "findOne" /\ last.id \in DOMAIN notes) =>
    /\ last.result \in {"OK", "Forbidden"}
    /\ last.result = "OK" <=>
         \/ last.userId = Author(last.id)
         \/ notes[last.id].visibility = "PUBLIC"
         \/ /\ notes[last.id].visibility = "SHARED"
            /\ last.userId \in GrantedUsers(noteUsers, last.id)

\* C1 witness: a grantee of a note that went back to PRIVATE is refused.
C1_Witness ==
  /\ last.op = "findOne" /\ last.id \in DOMAIN notes
  /\ notes[last.id].visibility = "PRIVATE"
  /\ last.userId \in GrantedUsers(noteUsers, last.id)
  /\ last.userId # Author(last.id)
  /\ last.result = "Forbidden"

\* C2: update, remove, shareNote and restoreVersion called on an existing
\* note by a requester who is not its author fail with Forbidden and leave
\* the Note, NoteVersion and NoteUser tables as they were.
C2_NonAuthorForbidden ==
  [][(/\ last'.op \in Mutating
      /\ last'.id \in DOMAIN notes
      /\ last'.userId # Author(last'.id))
     => (/\ last'.result = "Forbidden"
         /\ UNCHANGED <<notes, noteVersions, noteUsers>>)]_vars

\* C2 witness: a reader of a PUBLIC note who is not its author is refused
\* a share.
C2_Witness ==
  /\ last.op = "shareNote" /\ last.result = "Forbidden"
  /\ last.id \in DOMAIN notes
  /\ notes[last.id].visibility = "PUBLIC"
  /\ last.userId # Author(last.id)

\* C3: the NoteVersion rows of a note, in insertion order, are numbered
\* 1, 2, .., n: no duplicate, no gap, each new row above all earlier ones.
C3_VersionNumbers ==
  \A id \in DOMAIN notes :
    \A i \in 1 .. Len(VersionsOf(noteVersions, id)) :
      VersionsOf(noteVersions, id)[i].version = i

\* C3 witness: a restore has just added the third row of a note whose second
\* row came from an update.
C3_Witness ==
  /\ last.op = "restoreVersion" /\ last.result = "OK"
  /\ Len(VersionsOf(noteVersions, last.id)) = 3
  /\ VersionsOf(noteVersions, last.id)[2].title
       # VersionsOf(noteVersions, last.id)[1].title

\* C4: an update by the author adds exactly one NoteVersion (numbered max
\* existing + 1, holding the note's title and body after the update,
\* createdBy the author) when the supplied title differs from the persisted
\* title or the supplied body from the persisted body; otherwise, with title
\* and body identical or absent, it adds none.
C4_UpdateVersioning ==
  [][(last'.op = "update" /\ last'.result = "OK") =>
       LET id == last'.id
           differs ==
             \/ last'.dto.title \in Titles /\ last'.dto.title # notes[id].title
             \/ /\ last'.dto.description \in Bodies
                /\ last'.dto.description # notes[id].description
       IN IF differs
          THEN noteVersions' = Append(noteVersions,
                 [noteId |-> id,
                  title |-> notes'[id].title,
                  description |-> notes'[id].description,
                  version |-> LatestVersion(noteVersions, id) + 1,
                  createdBy |-> Author(id)])
          ELSE noteVersions' = noteVersions]_vars

\* C4 witness: an update that supplied the persisted title again, together
\* with a visibility, on a note that has a single version.
C4_Witness ==
  /\ last.op = "update" /\ last.result = "OK"
  /\ last.dto.title = notes[last.id].title
  /\ last.dto.description = Undefined
  /\ last.dto.visibility = "PUBLIC"
  /\ Len(VersionsOf(noteVersions, last.id)) = 1

\* C5: a successful restoreVersion(note, k) puts version k's title and body
\* on the live note, appends one NoteVersion numbered max existing + 1 with
\* that title and body, and leaves every earlier row as it was.
C5_Restore ==
  [][(last'.op = "restoreVersion" /\ last'.result = "OK") =>
       LET id == last'.id
       IN \E k \in 1 .. Len(noteVersions) :
            /\ noteVersions[k].noteId = id
            /\ noteVersions[k].version = last'.version
            /\ notes'[id].title = noteVersions[k].title
            /\ notes'[id].description = noteVersions[k].description
            /\ noteVersions' = Append(noteVersions,
                 [noteId |-> id,
                  title |-> noteVersions[k].title,
                  description |-> noteVersions[k].description,
                  version |-> LatestVersion(noteVersions, id) + 1,
                  createdBy |-> last'.userId])]_vars

\* C5 witness: version 1 restored over different live content: rows 1, 2, 3
\* with row 3 equal in content to row 1 and row 2 different.
C5_Witness ==
  /\ last.op = "restoreVersion" /\ last.result = "OK" /\ last.version = 1
  /\ Len(VersionsOf(noteVersions, last.id)) = 3
  /\ VersionsOf(noteVersions, last.id)[3].description
       = VersionsOf(noteVersions, last.id)[1].description
  /\ VersionsOf(noteVersions, last.id)[2].description
       # VersionsOf(noteVersions, last.id)[1].description
  /\ notes[last.id].description = VersionsOf(noteVersions, last.id)[1].description

\* C6: create inserts, in one step, the Note (authorId the caller, visibility
\* PRIVATE unless one is supplied) and its NoteVersion 1 with the note's
\* title and body and createdBy the caller; every existing note has at least
\* one NoteVersion in every state.
C6_CreateAtomic ==
  /\ [](\A id \in DOMAIN notes : VersionsOf(noteVersions, id) # <<>>)
  /\ [][last'.op = "create" =>
          LET id == last'.id
          IN /\ id \notin DOMAIN notes
             /\ DOMAIN notes' = DOMAIN notes \cup {id}
             /\ notes'[id].authorId = last'.userId
             /\ notes'[id].title = last'.dto.title
             /\ notes'[id].description = last'.dto.description
             /\ notes'[id].visibility =
                  (IF last'.dto.visibility \in Visibilities
                   THEN last'.dto.visibility ELSE "PRIVATE")
             /\ noteVersions' = Append(noteVersions,
                  [noteId |-> id,
                   title |-> last'.dto.title,
                   description |-> last'.dto.description,
                   version |-> 1,
                   createdBy |-> last'.userId])]_vars

\* C6 witness: a note just created without a visibility is PRIVATE and has
\* one version.
C6_Witness ==
  /\ last.op = "create" /\ last.dto.visibility = Undefined
  /\ notes[last.id].visibility = "PRIVATE"
  /\ Len(VersionsOf(noteVersions, last.id)) = 1

\* C7: after a successful shareNote(note, L) the note's NoteUser rows are one
\* VIEW row for each user of L and no other row, whatever rows earlier
\* calls left; so the same call made again leaves the same rows.
C7_ShareReplaces ==
  [][(last'.op = "shareNote" /\ last'.result = "OK") =>
       LET id == last'.id
           rows == GrantsOf(noteUsers', id)
       IN /\ GrantedUsers(noteUsers', id) = Range(last'.userIds)
          /\ Len(rows) = Cardinality(Range(last'.userIds))
          /\ \A i \in 1 .. Len(rows) : rows[i].permission = "VIEW"]_vars

\* C7 witness: a share with a one-user list has left exactly that grant.
C7_Witness ==
  /\ last.op = "shareNote" /\ last.result = "OK"
  /\ Len(last.userIds) = 1
  /\ Len(GrantsOf(noteUsers, last.id)) = 1
  /\ GrantedUsers(noteUsers, last.id) = {last.userIds[1]}

\* C8: a successful shareNote turns a PRIVATE note SHARED and leaves the
\* visibility of a SHARED or PUBLIC note as it is.
C8_ShareVisibility ==
  [][(last'.op = "shareNote" /\ last'.result = "OK") =>
       notes'[last'.id].visibility =
         (IF notes[last'.id].visibility = "PRIVATE"
          THEN "SHARED" ELSE notes[last'.id].visibility)]_vars

\* C8 witness: a PUBLIC note has been shared with somebody and is PUBLIC.
C8_Witness ==
  /\ last.op = "shareNote" /\ last.result = "OK"
  /\ last.userIds # <<>>
  /\ notes[last.id].visibility = "PUBLIC"

\* C9: shareNote by the author fails with BadRequest exactly when some id of
\* the list resolves to no user (order and multiplicity do not matter), and
\* a BadRequest leaves the NoteUser rows and the visibility unchanged.
C9_ShareValidation ==
  [][(/\ last'.op = "shareNote"
      /\ last'.id \in DOMAIN notes
      /\ last'.userId = Author(last'.id))
     => /\ last'.result = "BadRequest"
             <=> (\E i \in 1 .. Len(last'.userIds) : last'.userIds[i] \notin Users)
        /\ last'.result = "BadRequest" => UNCHANGED <<notes, noteUsers>>]_vars

\* C10: the NoteUser table never holds two rows for the same (note, user).
C10_OneGrantPerPair ==
  \A i, j \in 1 .. Len(noteUsers) :
    (noteUsers[i].noteId = noteUsers[j].noteId
       /\ noteUsers[i].userId = noteUsers[j].userId) => i = j

\* C10 witness: a list naming one existing user twice has been turned down
\* while the note has grants.
C10_Witness ==
  /\ last.op = "shareNote" /\ last.result = "BadRequest"
  /\ Len(last.userIds) = 2
  /\ last.userIds[1] = last.userIds[2]
  /\ last.userIds[1] \in Users
  /\ noteUsers # <<>>

\* C11: no NoteUser row names the author of its note as the grantee,
\* whatever lists shareNote was called with.
C11_NoGrantForAuthor ==
  \A i \in 1 .. Len(noteUsers) :
    noteUsers[i].noteId \in DOMAIN notes
      => noteUsers[i].userId # Author(noteUsers[i].noteId)

\* C20: findOne on an id that resolves to no note fails with NotFound and on
\* a note the requester cannot read with Forbidden; update, remove,
\* shareNote, restoreVersion and getVersions on an id that resolves to no
\* note fail with NotFound for every requester, and write nothing.
C20_NotFoundForbidden ==
  [][/\ (last'.op \in Mutating \cup {"findOne", "getVersions"}
           /\ last'.id \notin DOMAIN notes)
          => (last'.result = "NotFound" /\ UNCHANGED db)
     /\ (last'.op = "findOne" /\ last'.id \in DOMAIN notes
           /\ last'.userId # Author(last'.id)
           /\ notes[last'.id].visibility # "PUBLIC"
           /\ ~(notes[last'.id].visibility = "SHARED"
                  /\ last'.userId \in GrantedUsers(noteUsers, last'.id)))
          => last'.result = "Forbidden"]_vars

\* C20 witness: the versions of a removed note are asked for.
C20_Witness ==
  /\ last.op = "getVersions" /\ last.result = "NotFound"
  /\ last.id \in usedIds /\ last.id \notin DOMAIN notes

\* C12: the visibility of an existing note changes only in an update, or in
\* a shareNote that takes it from PRIVATE to SHARED; nothing else moves a
\* note to PUBLIC or a SHARED note back to PRIVATE, also when a share or a
\* restore leaves the note without grants.
C12_VisibilityMachine ==
  [][\A id \in DOMAIN notes \cap DOMAIN notes' :
       notes'[id].visibility # notes[id].visibility =>
         \/ last'.op = "update" /\ last'.id = id
         \/ /\ last'.op = "shareNote" /\ last'.id = id
            /\ notes[id].visibility = "PRIVATE"
            /\ notes'[id].visibility = "SHARED"]_vars

\* C12 witness: a share with the empty list has left a SHARED note without
\* any grant.
C12_Witness ==
  /\ last.op = "shareNote" /\ last.result = "OK" /\ last.userIds = <<>>
  /\ notes[last.id].visibility = "SHARED"
  /\ GrantsOf(noteUsers, last.id) = <<>>

ContentOf(note) == <<note.title, note.description, note.tags>>

NewNotifications ==
  SubSeq(notifications', Len(notifications) + 1, Len(notifications'))

\* C14: a successful shareNote(note, L) by the author leaves exactly one
\* NOTE_SHARED notification row for each user in L and none for anyone else.
C14_ShareNotifies ==
  [][(last'.op = "shareNote" /\ last'.result = "OK") =>
       /\ Len(notifications') >= Len(notifications)
       /\ Len(NewNotifications) = Cardinality(Range(last'.userIds))
       /\ {r.userId : r \in Range(NewNotifications)} = Range(last'.userIds)
       /\ \A r \in Range(NewNotifications) :
            r.type = "NOTE_SHARED" /\ r.noteId = last'.id]_vars

\* C15: an update by the author that changes title or body leaves exactly one
\* NOTE_UPDATED notification row for each holder of a grant on the note and
\* none for the author; an update that changes neither leaves none.
C15_UpdateNotifies ==
  [][(last'.op = "update" /\ last'.result = "OK") =>
       LET id == last'.id
           changed == \/ notes'[id].title # notes[id].title
                      \/ notes'[id].description # notes[id].description
           holders == IF changed
                      THEN GrantedUsers(noteUsers, id) \ {Author(id)}
                      ELSE {}
       IN /\ Len(notifications') >= Len(notifications)
          /\ Len(NewNotifications) = Cardinality(holders)
          /\ {r.userId : r \in Range(NewNotifications)} = holders
          /\ \A r \in Range(NewNotifications) :
               r.type = "NOTE_UPDATED" /\ r.noteId = id]_vars

\* C16: NotificationsService.create persists one row for the recipient and
\* then pushes it on the recipient's channel.
C16_NotifyPersistsThenPushes ==
  [][last'.op = "notify" =>
       /\ Len(notifications') = Len(notifications) + 1
       /\ notifications'[Len(notifications')].userId = last'.userId
       /\ Len(emitted') = Len(emitted) + 1
       /\ emitted'[Len(emitted')].room = UserRoom(last'.userId)
       /\ emitted'[Len(emitted')].event = "notification"]_vars

\* The slot's transaction commits in this step.
Commits(s) == InTransaction(s) /\ inflight'[s].pc = "idle"

\* C17: when calls of update by the author overlap on one note, each call
\* whose request changes title or body inserts its own NoteVersion row, and no
\* version number is held by two rows of the same note.
C17_ConcurrentVersions ==
  [][/\ \A i, j \in 1 .. Len(noteVersions') :
          (i # j /\ noteVersions'[i].noteId = noteVersions'[j].noteId)
            => noteVersions'[i].version # noteVersions'[j].version
     /\ \A s \in Slots :
          (Commits(s) /\ contentChanged(inflight[s].dto, inflight[s].existingNote))
            => /\ Len(noteVersions') = Len(noteVersions) + 1
               /\ noteVersions'[Len(noteVersions')].noteId = inflight[s].id
               /\ noteVersions'[Len(noteVersions')].createdBy = inflight[s].userId
               /\ SubSeq(noteVersions', 1, Len(noteVersions)) = noteVersions]_vars

\* C17 witness: two updates that read the same note, one changing the title
\* and one the body, have both committed: the later row carries the new
\* value of its own field and the value read of the other.
C17_Witness ==
  /\ last.op = "update" /\ last.result = "OK"
  /\ \A s \in Slots : inflight[s].pc = "idle"
  /\ \E i \in 1 .. Len(noteVersions) - 1 :
       /\ noteVersions[i].noteId = noteVersions[i + 1].noteId
       /\ noteVersions[i].title # noteVersions[i + 1].title
       /\ noteVersions[i].description # noteVersions[i + 1].description
       /\ noteVersions[i].version + 1 = noteVersions[i + 1].version

\* C18: update changes only the fields of the request: a field the request
\* omits keeps its persisted value, also when another update has committed
\* between the read and the write of this one.
C18_OnlySuppliedFields ==
  [][\A s \in Slots :
       Commits(s) =>
         LET c == inflight[s] IN
         /\ c.dto.title = Undefined => notes'[c.id].title = notes[c.id].title
         /\ c.dto.description = Undefined
              => notes'[c.id].description = notes[c.id].description
         /\ c.dto.tags = Undefined => notes'[c.id].tags = notes[c.id].tags
         /\ c.dto.visibility = Undefined
              => notes'[c.id].visibility = notes[c.id].visibility]_vars

\* The notes for which findOne(N, U) succeeds.
Readable(userId) == {id \in DOMAIN notes : findOneResult(id, userId) = "OK"}

\* All pages of findAll without filters, 1 .. meta.totalPages.
AllPages(userId, limit) ==
  UNION {Range(findAllData(userId, p, limit)) :
           p \in 1 .. totalPages(findAllTotal(userId), limit)}

\* C19: findAll without filters returns, over all its pages, exactly the
\* notes for which findOne succeeds for the same user; advancedSearch returns
\* and getSearchSuggestions draws on such notes only; none of them fails
\* because of a note the user cannot read.
C19_ListingMatchesFindOne ==
  [][/\ last'.op \in {"findAll", "advancedSearch", "getSearchSuggestions"}
          => last'.result = "OK" /\ UNCHANGED db
     /\ last'.op = "findAll"
          => /\ Range(last'.data) \subseteq Readable(last'.userId)
             /\ AllPages(last'.userId, last'.query.limit) = Readable(last'.userId)
     /\ last'.op = "advancedSearch"
          => Range(last'.data) \subseteq Readable(last'.userId)
     /\ last'.op = "getSearchSuggestions"
          => Range(last'.data) \subseteq
               UNION {suggestionsOf(id, last'.query.search) :
                        id \in Readable(last'.userId)}]_vars

\* C19 witness: a one-row page of a listing by a user who reads one note as
\* its grantee and cannot read the other, a PRIVATE note that still has a
\* grant for that user.
C19_Witness ==
  /\ last.op = "findAll" /\ last.query.page = 1 /\ last.query.limit = 1
  /\ Len(last.data) = 1
  /\ \E a, b \in DOMAIN notes :
       /\ last.data[1] = a /\ a # b
       /\ notes[a].authorId # last.userId /\ notes[a].visibility = "SHARED"
       /\ notes[b].visibility = "PRIVATE" /\ notes[b].authorId # last.userId
       /\ last.userId \in GrantedUsers(noteUsers, b)

\* C21: restoreVersion by the author with a version number that no
\* NoteVersion row of the note carries fails with NotFound and leaves the
\* note's title and body and all of its NoteVersion rows as they were.
C21_RestoreAbsentVersion ==
  [][(/\ last'.op = "restoreVersion"
      /\ last'.id \in DOMAIN notes
      /\ last'.userId = Author(last'.id)
      /\ \A i \in 1 .. Len(noteVersions) :
           noteVersions[i].noteId = last'.id
             => noteVersions[i].version # last'.version)
       => /\ last'.result = "NotFound"
          /\ notes' = notes
          /\ noteVersions' = noteVersions]_vars

\* C21 witness: the author of a note with two versions has asked for a
\* version beyond them and got NotFound.
C21_Witness ==
  /\ last.op = "restoreVersion" /\ last.result = "NotFound"
  /\ last.id \in DOMAIN notes /\ last.userId = Author(last.id)
  /\ Len(VersionsOf(noteVersions, last.id)) = 2
  /\ last.version = 3

\* Rows of the table that exist, are the user's and are unread.
Unread(rows, userId) ==
  {i \in 1 .. Len(rows) :
     rows[i] # DeletedRow /\ rows[i].userId = userId /\ rows[i].read = FALSE}

\* C22: getUnreadCount(u) is the number of u's rows with read = false;
\* markAllAsRead(u) returns that number, leaves it at 0 and changes no row of
\* another user.
C22_UnreadCount ==
  [][/\ last'.op = "getUnreadCount"
          => /\ last'.data = <<Cardinality(Unread(notifications, last'.userId))>>
             /\ notifications' = notifications
     /\ last'.op = "markAllAsRead"
          => /\ last'.data = <<Cardinality(Unread(notifications, last'.userId))>>
             /\ Unread(notifications', last'.userId) = {}
             /\ Len(notifications') = Len(notifications)
             /\ \A i \in 1 .. Len(notifications) :
                  notifications[i].userId # last'.userId
                    => notifications'[i] = notifications[i]]_vars

\* C22 witness: markAllAsRead has returned 2 while another user still has an
\* unread row.
C22_Witness ==
  /\ last.op = "markAllAsRead" /\ last.data = <<2>>
  /\ Unread(notifications, last.userId) = {}
  /\ \E u \in Users : u # last.userId /\ Unread(notifications, u) # {}

\* C23: markAsRead(id, u) and delete(id, u) on a notification of another
\* user fail and leave it as it was; an existing notification is only ever
\* changed by its owner, by markAsRead or markAllAsRead setting read to true
\* or by delete, and read never goes back to false.
C23_OwnNotificationsOnly ==
  [][/\ (/\ last'.op \in {"markAsRead", "delete"}
         /\ Exists(notifications, last'.data[1])
         /\ notifications[last'.data[1]].userId # last'.userId)
          => last'.result # "OK" /\ notifications' = notifications
     /\ \A i \in 1 .. Len(notifications) :
          (Exists(notifications, i) /\ notifications'[i] # notifications[i])
            => /\ last'.userId = notifications[i].userId
               /\ \/ /\ last'.op \in {"markAsRead", "markAllAsRead"}
                     /\ notifications[i].read = FALSE
                     /\ notifications'[i] = [notifications[i] EXCEPT !.read = TRUE]
                  \/ /\ last'.op = "delete"
                     /\ notifications'[i] = DeletedRow]_vars

\* C23 witness: a user has asked to delete an unread notification of
\* another user; the call failed and the row is there, unread.
C23_Witness ==
  /\ last.op = "delete" /\ last.result = "NotFound"
  /\ Exists(notifications, last.data[1])
  /\ notifications[last.data[1]].userId # last.userId
  /\ notifications[last.data[1]].read = FALSE

\* The socket has presented no token, a token that fails verification, or a
\* token whose subject is no user.
FailsAuthentication(s) == sockets[s].pc # "new" /\ sockets[s].token \notin Users

\* C24: a socket without a token, with a token that fails verification or
\* with a token whose subject is no user is disconnected by the server, is
\* never in the presence registry and is never in any room: its join-room
\* and leave-room messages have no effect.
C24_UnauthenticatedSocket ==
  \A s \in SocketIds :
    FailsAuthentication(s) =>
      /\ sockets[s].userId = Undefined
      /\ sockets[s].rooms = {}
      /\ \A u \in Users : connectedUsers[u] # s
      /\ sockets[s].pc = "done" => ~sockets[s].live

\* C24 witness: a socket whose token names no user has sent join-room while
\* the lookup of its user was pending.
C24_Witness ==
  /\ last.op = "handleJoinRoom"
  /\ sockets[last.data[1]].token = "u0"
  /\ sockets[last.data[1]].pc = "lookup"
  /\ sockets[last.data[1]].rooms = {}

\* The sockets that have registered for the user, and the latest of them.
RegisteredFor(userId) ==
  {s \in SocketIds : sockets[s].registered > 0 /\ sockets[s].userId = userId}
LatestFor(userId) ==
  CHOOSE s \in RegisteredFor(userId) :
    \A t \in RegisteredFor(userId) : sockets[t].registered <= sockets[s].registered

\* C25: a user has a registry entry exactly when the socket that registered
\* most recently for that user has not disconnected, and the entry is that
\* socket's id.
C25_RegistryTracksLatest ==
  \A u \in Users :
    IF RegisteredFor(u) = {} THEN ~isUserOnline(u)
    ELSE /\ isUserOnline(u) <=> sockets[LatestFor(u)].live
         /\ isUserOnline(u) => connectedUsers[u] = LatestFor(u)

\* The user's connections that are authenticated and connected.
LiveConnections(userId) ==
  {s \in SocketIds : sockets[s].live /\ sockets[s].userId = userId}

\* The user a push of this step is addressed to.
PushedUser == IF last'.op = "sendNoteUpdate" THEN last'.userIds[1] ELSE last'.userId

\* C26 as stated: a push to a user with several live authenticated
\* connections reaches exactly one of them, the most recently connected.
C26_OnlyLatestConnection ==
  [][(/\ last'.op \in {"sendNotificationToUser", "sendNoteUpdate"}
      /\ Cardinality(LiveConnections(PushedUser)) > 1)
       => emitted'[Len(emitted')].to \cap LiveConnections(PushedUser)
            = {LatestFor(PushedUser)}]_vars

\* C26 amended: a push to a user reaches every live connection of the user
\* that is in room user:U; a connection enters that room when it is
\* authenticated and leaves it only by its own leave-room or disconnect.
C26_EveryConnectionInRoom ==
  [][/\ last'.op \in {"sendNotificationToUser", "sendNoteUpdate"}
          => /\ Len(emitted') = Len(emitted) + 1
             /\ {s \in LiveConnections(PushedUser) :
                   UserRoom(PushedUser) \in sockets[s].rooms}
                  \subseteq emitted'[Len(emitted')].to
     /\ \A s \in SocketIds :
          /\ (sockets[s].userId = Undefined /\ sockets'[s].userId # Undefined)
               => UserRoom(sockets'[s].userId) \in sockets'[s].rooms
          /\ (/\ sockets[s].userId # Undefined
              /\ UserRoom(sockets[s].userId) \in sockets[s].rooms
              /\ UserRoom(sockets[s].userId) \notin sockets'[s].rooms)
               => /\ last'.op \in {"handleLeaveRoom", "handleDisconnect"}
                  /\ last'.data[1] = s]_vars

\* C26 witness: a push has reached two live connections of one user.
C26_Witness ==
  /\ last.op \in {"sendNotificationToUser", "sendNoteUpdate"}
  /\ Len(emitted) > 0
  /\ \E u \in GatewayUsers :
       /\ emitted[Len(emitted)].room = UserRoom(u)
       /\ Cardinality(LiveConnections(u)) = 2
       /\ LiveConnections(u) \subseteq emitted[Len(emitted)].to

\* C27: the only members of room user:U are connections authenticated as U.
C27_PrivateChannel ==
  \A s \in SocketIds, u \in Users :
    UserRoom(u) \in sockets[s].rooms => sockets[s].userId = u

\* C30: once the disconnect of a socket has been handled, no registry entry
\* holds that socket's id.
C30_NoEntryAfterDisconnect ==
  \A s \in SocketIds :
    (sockets[s].pc # "new" /\ ~sockets[s].live)
      => \A u \in Users : connectedUsers[u] # s

\* C28: shareNote never lowers a PUBLIC note to SHARED, also when the update
\* that made the note PUBLIC commits between the read of shareNote and its
\* transaction.
C28_ShareKeepsPublic ==
  [][(/\ last'.op = "shareNote" /\ last'.result = "OK"
      /\ notes[last'.id].visibility = "PUBLIC")
       => notes'[last'.id].visibility = "PUBLIC"]_vars

\* C29: the title and body of a note's highest-numbered NoteVersion row are
\* the note's current title and body.
C29_LatestVersionIsCurrent ==
  \A id \in DOMAIN notes :
    \A r \in Range(VersionsOf(noteVersions, id)) :
      r.version = LatestVersion(noteVersions, id)
        => r.title = notes[id].title /\ r.description = notes[id].description
====
